---- MODULE Spec2Model ----
(***************************************************************************)
(* A model of the asynchronous task utilities of cpputils:                 *)
(*   - TaskManager (spawn / spawn_with_result / worker / wait_all), whose  *)
(*     handles are std::future objects, and                                *)
(*   - Task<R>, a copyable handle around a std::shared_future.             *)
(* Threads are interleaved at the granularity of the statements that touch *)
(* shared state (the atomic counter, the mutex, the condition variable and *)
(* the shared state of a promise).  The two TaskManager variants of the    *)
(* sources (a constructible object and a static singleton) run the same    *)
(* statements; one model covers both.                                      *)
(***************************************************************************)
EXTENDS Integers, Sequences, FiniteSets, TLC

\* ------------------------------------------------------------------ bounds
MaxTasks == 2      \* handles created through TaskManager
MaxWaiters == 1    \* threads that call wait_all
MaxHandles == 1    \* handles whose reads are followed
MaxDrained == 1    \* tasks spawned in the runs checked under fairness
MaxGets == 2       \* get() calls made on one std::future
MaxCopies == 2     \* Task<R> objects that share one result
MaxDrainers == 2   \* threads inside wait_all at the same time

Tasks == 1..MaxTasks
Waiters == 1..MaxWaiters
Handles == {t \in Tasks : t <= MaxHandles}
Drained == {t \in Tasks : t <= MaxDrained}
Drainers == 1..MaxDrainers

\* ------------------------------------------------------- callables, values
\* The callables handed to spawn, with the arguments they are bound to:
\*   add   : int(int, int), returns a + b
\*   noop  : void(), returns normally
\*   throw : int(), raises the exception err
Errors == {"boom", "bang"}
Inputs ==
    {[fn |-> "add", a |-> 2, b |-> 2, err |-> "none"],
     [fn |-> "add", a |-> 1, b |-> 2, err |-> "none"],
     [fn |-> "noop", a |-> 0, b |-> 0, err |-> "none"]}
    \cup {[fn |-> "throw", a |-> 0, b |-> 0, err |-> e] : e \in Errors}
NoInput == [fn |-> "none", a |-> 0, b |-> 0, err |-> "none"]
\* one callable of each kind, for the runs that exercise wait_all
DrainInputs ==
    {[fn |-> "add", a |-> 2, b |-> 2, err |-> "none"],
     [fn |-> "noop", a |-> 0, b |-> 0, err |-> "none"],
     [fn |-> "throw", a |-> 0, b |-> 0, err |-> "boom"]}
\* the values handed to spawn_with_result
Values == {3, 4}
DrainValues == {4}

\* f(args...): what invoking the callable produces
Call(in) ==
    IF in.fn = "throw" THEN [raised |-> TRUE, val |-> 0, err |-> in.err]
    ELSE IF in.fn = "add" THEN [raised |-> FALSE, val |-> in.a + in.b, err |-> "none"]
    ELSE [raised |-> FALSE, val |-> 0, err |-> "none"]

\* ------------------------------------------- shared state of a promise
NoValue == 0 - 1   \* the payload of a ready std::future<void>
Pending == [st |-> "Pending", val |-> 0, err |-> "none"]
Resolved(v) == [st |-> "Resolved", val |-> v, err |-> "none"]
Failed(e) == [st |-> "Failed", val |-> 0, err |-> e]
Terminal(s) == s.st # "Pending"

\* (variant: the destructor stores broken_promise whatever the state holds)
AbandonPromiseAlways(s) == Failed("broken_promise")

\* (variant: the destructor leaves a state that is not ready as it is)
AbandonPromiseKeeps(s) == s

\* std::promise::~promise: a shared state that is not ready is made ready
\* with future_error(broken_promise)
AbandonPromise(s) == IF Terminal(s) THEN s ELSE Failed("broken_promise")

\* (variant: the promise is given a value-initialised R instead of the
\* callable's result)
SetValueDefault(s, in) ==
    LET r == Call(in) IN
    IF r.raised THEN [slot |-> s, exc |-> r.err]
    ELSE IF in.fn = "noop" THEN [slot |-> s, exc |-> "none"]
    ELSE [slot |-> Resolved(0), exc |-> "none"]

\* the try block of worker: set_value(promise, f, args...), either overload.
\* exc is the exception that leaves the block, "none" when none does.
SetValue(s, in) ==
    LET r == Call(in) IN
    IF r.raised THEN [slot |-> s, exc |-> r.err]
    ELSE IF in.fn = "noop" THEN [slot |-> s, exc |-> "none"]
    ELSE [slot |-> Resolved(r.val), exc |-> "none"]

\* (variant: a fresh generic exception is stored instead of the one caught)
SetExceptionGeneric(s, e) == Failed("unknown")

\* promise.set_exception(std::current_exception()) in the catch block
SetException(s, e) == Failed(e)

\* --------------------------------------------------------------- state
VARIABLES
    task_count,  \* TaskManager::task_count
    mutex,       \* owner of TaskManager::mut
    spc,         \* per handle: position of the spawn call that makes it
    wk,          \* per handle: position of its detached worker thread
    inp,         \* per handle: the callable and arguments given to spawn
    slot,        \* per handle: shared state of the promise/future pair
    wpc,         \* per waiter: position inside wait_all
    fvalid,      \* per handle: std::future::valid()
    got,         \* per handle: what the get() calls made so far produced
    tcopies,     \* per handle: the Task<R> objects that share it
    secondary    \* history: the workers whose set_exception itself raised

vars == <<task_count, mutex, spc, wk, inp, slot, wpc, fvalid, got, tcopies,
          secondary>>

Free == <<"free", 0>>
WorkerId(t) == <<"worker", t>>
WaiterId(w) == <<"waiter", w>>

Init ==
    /\ task_count = 0
    /\ mutex = Free
    /\ spc = [t \in Tasks |-> "idle"]
    /\ wk = [t \in Tasks |-> "none"]
    /\ inp = [t \in Tasks |-> NoInput]
    /\ slot = [t \in Tasks |-> Pending]
    /\ wpc = [w \in Waiters |-> "idle"]
    /\ fvalid = [t \in Tasks |-> FALSE]
    /\ got = [t \in Tasks |-> <<>>]
    /\ tcopies = [t \in Tasks |-> <<>>]
    /\ secondary = {}

\* handles are numbered in the order their spawn calls begin
NextHandle(t) == spc[t] = "idle" /\ \A u \in Tasks : u < t => spc[u] # "idle"

\* ------------------------------------------------------ TaskManager::spawn
\* promise; f = promise.get_future(); task_count++
SpawnIncrement(t, in) ==
    /\ NextHandle(t)
    /\ spc' = [spc EXCEPT ![t] = "counted"]
    /\ inp' = [inp EXCEPT ![t] = in]
    /\ slot' = [slot EXCEPT ![t] = Pending]
    /\ task_count' = task_count + 1
    /\ UNCHANGED <<mutex, wk, wpc, fvalid, got, tcopies, secondary>>

\* std::thread(&TaskManager::worker, ...).detach(): the worker starts
SpawnLaunch(t) ==
    /\ spc[t] = "counted"
    /\ spc' = [spc EXCEPT ![t] = "launched"]
    /\ wk' = [wk EXCEPT ![t] = "run"]
    /\ UNCHANGED <<task_count, mutex, inp, slot, wpc, fvalid, got, tcopies, secondary>>

\* the std::thread constructor throws std::system_error: spawn unwinds, the
\* local promise is destroyed, the caller gets the exception and no future
SpawnLaunchFail(t) ==
    /\ spc[t] = "counted"
    /\ spc' = [spc EXCEPT ![t] = "raised"]
    /\ slot' = [slot EXCEPT ![t] = AbandonPromise(slot[t])]
    /\ UNCHANGED <<task_count, mutex, wk, inp, wpc, fvalid, got, tcopies, secondary>>

\* return f
SpawnReturn(t) ==
    /\ spc[t] = "launched"
    /\ spc' = [spc EXCEPT ![t] = "returned"]
    /\ fvalid' = [fvalid EXCEPT ![t] = TRUE]
    /\ UNCHANGED <<task_count, mutex, wk, inp, slot, wpc, got, tcopies, secondary>>

\* ------------------------------------------ TaskManager::spawn_with_result
\* the argument of a spawn_with_result call, kept as the handle's input
ValueInput(v) == [fn |-> "value", a |-> v, b |-> 0, err |-> "none"]

\* (variant: the promise is returned without having been given the value)
SpawnWithResultUnset(t, v) ==
    /\ NextHandle(t)
    /\ spc' = [spc EXCEPT ![t] = "value"]
    /\ inp' = [inp EXCEPT ![t] = ValueInput(v)]
    /\ fvalid' = [fvalid EXCEPT ![t] = TRUE]
    /\ UNCHANGED <<task_count, mutex, wk, slot, wpc, got, tcopies, secondary>>

\* (variant: the value-backed handle is registered like a spawned task)
SpawnWithResultCounted(t, v) ==
    /\ NextHandle(t)
    /\ spc' = [spc EXCEPT ![t] = "value"]
    /\ inp' = [inp EXCEPT ![t] = ValueInput(v)]
    /\ slot' = [slot EXCEPT ![t] = Resolved(v)]
    /\ fvalid' = [fvalid EXCEPT ![t] = TRUE]
    /\ task_count' = task_count + 1
    /\ UNCHANGED <<mutex, wk, wpc, got, tcopies, secondary>>

\* std::promise<T> promise; promise.set_value(result);
\* return promise.get_future(): the local promise is destroyed with its
\* shared state ready, which leaves the state as it is
SpawnWithResult(t, v) ==
    /\ NextHandle(t)
    /\ spc' = [spc EXCEPT ![t] = "value"]
    /\ inp' = [inp EXCEPT ![t] = ValueInput(v)]
    /\ slot' = [slot EXCEPT ![t] = AbandonPromise(Resolved(v))]
    /\ fvalid' = [fvalid EXCEPT ![t] = TRUE]
    /\ UNCHANGED <<task_count, mutex, wk, wpc, got, tcopies, secondary>>

\* ----------------------------------------------------- TaskManager::worker
\* (variant: no handler, an exception of the callable ends the thread)
WorkerRunNoCatch(t, stored) ==
    /\ wk[t] = "run"
    /\ LET r == SetValue(slot[t], inp[t]) IN
        /\ slot' = [slot EXCEPT ![t] = r.slot]
        /\ wk' = [wk EXCEPT ![t] = IF r.exc = "none" THEN "lock" ELSE "done"]
    /\ UNCHANGED <<task_count, mutex, spc, inp, wpc, fvalid, got, tcopies, secondary>>

\* try { set_value(promise, f, args...); }
\* catch (...) { try { promise.set_exception(current_exception()); }
\*               catch (...) {} }
\* stored = FALSE: set_exception itself raised and the inner handler
\* swallowed it. Nothing else reads or writes the shared state in between.
WorkerRun(t, stored) ==
    /\ wk[t] = "run"
    /\ LET r == SetValue(slot[t], inp[t]) IN
        slot' = [slot EXCEPT ![t] =
                   IF r.exc = "none" \/ ~stored THEN r.slot
                   ELSE SetException(r.slot, r.exc)]
    /\ wk' = [wk EXCEPT ![t] = "lock"]
    /\ secondary' = IF SetValue(slot[t], inp[t]).exc # "none" /\ ~stored
                    THEN secondary \cup {t} ELSE secondary
    /\ UNCHANGED <<task_count, mutex, spc, inp, wpc, fvalid, got, tcopies>>

\* (variant: the worker does not take the mutex)
WorkerLockRacy(t) ==
    /\ wk[t] = "lock"
    /\ wk' = [wk EXCEPT ![t] = "locked"]
    /\ UNCHANGED <<task_count, mutex, spc, inp, slot, wpc, fvalid, got, tcopies, secondary>>

\* std::unique_lock<std::mutex> lock{mut}
WorkerLock(t) ==
    /\ wk[t] = "lock"
    /\ mutex = Free
    /\ mutex' = WorkerId(t)
    /\ wk' = [wk EXCEPT ![t] = "locked"]
    /\ UNCHANGED <<task_count, spc, inp, slot, wpc, fvalid, got, tcopies, secondary>>

\* (variant: notify_one, a single blocked thread is woken)
NotifyOne(pcs) ==
    [w \in DOMAIN pcs |->
        IF pcs[w] = "blocked" /\ \A u \in DOMAIN pcs : u < w => pcs[u] # "blocked"
        THEN "lock" ELSE pcs[w]]

\* cond.notify_all(): every thread blocked in cond.wait is woken and has to
\* take the mutex again
NotifyAll(pcs) == [w \in DOMAIN pcs |-> IF pcs[w] = "blocked" THEN "lock" ELSE pcs[w]]

\* (variant: the decrement is skipped when the callable raised)
WorkerSignalSkipsFailed(t) ==
    /\ wk[t] = "locked"
    /\ task_count' = IF Call(inp[t]).raised THEN task_count ELSE task_count - 1
    /\ wpc' = [w \in DOMAIN wpc |-> IF wpc[w] = "blocked" THEN "lock" ELSE wpc[w]]
    /\ mutex' = IF mutex = WorkerId(t) THEN Free ELSE mutex
    /\ wk' = [wk EXCEPT ![t] = "exit"]
    /\ UNCHANGED <<spc, inp, slot, fvalid, got, tcopies, secondary>>

\* task_count--; cond.notify_all(); and the end of worker's body, where lock
\* is destroyed and the mutex released. The three run with the mutex held:
\* no thread inside wait_all can take a step between them.
WorkerSignal(t) ==
    /\ wk[t] = "locked"
    /\ task_count' = task_count - 1
    /\ wpc' = NotifyAll(wpc)
    /\ mutex' = IF mutex = WorkerId(t) THEN Free ELSE mutex
    /\ wk' = [wk EXCEPT ![t] = "exit"]
    /\ UNCHANGED <<spc, inp, slot, fvalid, got, tcopies, secondary>>

\* worker returns: its by-value promise parameter is destroyed
WorkerExit(t) ==
    /\ wk[t] = "exit"
    /\ slot' = [slot EXCEPT ![t] = AbandonPromise(slot[t])]
    /\ wk' = [wk EXCEPT ![t] = "done"]
    /\ UNCHANGED <<task_count, mutex, spc, inp, wpc, fvalid, got, tcopies, secondary>>

\* --------------------------------------------------- TaskManager::wait_all
\* a thread calls wait_all; the calling threads are numbered in the order
\* of their calls
WaitAllCall(w) ==
    /\ wpc[w] = "idle"
    /\ \A u \in DOMAIN wpc : u < w => wpc[u] # "idle"
    /\ wpc' = [wpc EXCEPT ![w] = "lock"]
    /\ UNCHANGED <<task_count, mutex, spc, wk, inp, slot, fvalid, got, tcopies, secondary>>

\* (variant: a destructor that does not wait)
DestructorNoDrain(w) ==
    /\ wpc[w] = "idle"
    /\ wpc' = [wpc EXCEPT ![w] = "returned"]
    /\ UNCHANGED <<task_count, mutex, spc, wk, inp, slot, fvalid, got, tcopies, secondary>>

\* ~TaskManager() { wait_all(); }: the destroying thread enters wait_all;
\* the members are destroyed once wait_all has returned
Destructor(w) == WaitAllCall(w)

\* (variant: an off-by-one predicate)
WaitPredicateLoose == task_count <= 1

\* the predicate of cond.wait(lock, pred)
WaitPredicate == task_count = 0

\* std::unique_lock<std::mutex> lock{mut} (or the re-lock inside cond.wait
\* after a wake-up), then while (!pred()): the predicate is evaluated with
\* the mutex held
WaitAllLock(w) ==
    /\ wpc[w] = "lock"
    /\ mutex = Free
    /\ mutex' = WaiterId(w)
    /\ wpc' = [wpc EXCEPT ![w] = IF WaitPredicate THEN "unlock" ELSE "wait"]
    /\ UNCHANGED <<task_count, spc, wk, inp, slot, fvalid, got, tcopies, secondary>>

\* cond.wait(lock): atomically release the mutex and block
WaitAllBlock(w) ==
    /\ wpc[w] = "wait"
    /\ mutex' = Free
    /\ wpc' = [wpc EXCEPT ![w] = "blocked"]
    /\ UNCHANGED <<task_count, spc, wk, inp, slot, fvalid, got, tcopies, secondary>>

\* condition variables may wake spuriously
SpuriousWake(w) ==
    /\ wpc[w] = "blocked"
    /\ wpc' = [wpc EXCEPT ![w] = "lock"]
    /\ UNCHANGED <<task_count, mutex, spc, wk, inp, slot, fvalid, got, tcopies, secondary>>

\* wait_all returns: lock is destroyed, the mutex is released
WaitAllReturn(w) ==
    /\ wpc[w] = "unlock"
    /\ mutex' = Free
    /\ wpc' = [wpc EXCEPT ![w] = "returned"]
    /\ UNCHANGED <<task_count, spc, wk, inp, slot, fvalid, got, tcopies, secondary>>


\* ------------------------------------------------------ std::future::get
\* What get() on a std::future that is no longer valid can do: the standard
\* leaves it undefined; libstdc++ throws future_error(no_state), libc++
\* dereferences a null state.
Crash == [st |-> "Crash", val |-> 0, err |-> "none"]
InvalidGetOutcomes == {Failed("no_state"), Crash}

\* get() on the std::future returned by spawn or spawn_with_result: blocks
\* until the shared state is ready, returns the value or rethrows the stored
\* exception, and releases the shared state (valid() becomes false)
FutureGet(t) ==
    /\ spc[t] \in {"returned", "value"}
    /\ Len(got[t]) < MaxGets
    /\ IF fvalid[t]
       THEN /\ Terminal(slot[t])
            /\ got' = [got EXCEPT ![t] = Append(@, slot[t])]
            /\ fvalid' = [fvalid EXCEPT ![t] = FALSE]
       ELSE /\ \E r \in InvalidGetOutcomes :
                  got' = [got EXCEPT ![t] = Append(@, r)]
            /\ UNCHANGED fvalid
    /\ UNCHANGED <<task_count, mutex, spc, wk, inp, slot, wpc, tcopies, secondary>>

\* (variant: the destructor joins the task, as that of a future obtained
\* from std::async does)
FutureReleaseJoins(t) ==
    /\ spc[t] = "returned"
    /\ fvalid[t]
    /\ Terminal(slot[t])
    /\ fvalid' = [fvalid EXCEPT ![t] = FALSE]
    /\ UNCHANGED <<task_count, mutex, spc, wk, inp, slot, wpc, got, tcopies, secondary>>

\* the std::future returned by spawn is destroyed: it comes from
\* promise.get_future(), so its destructor only gives up its reference to
\* the shared state, which the worker's promise keeps alive
FutureRelease(t) ==
    /\ spc[t] = "returned"
    /\ fvalid[t]
    /\ fvalid' = [fvalid EXCEPT ![t] = FALSE]
    /\ UNCHANGED <<task_count, mutex, spc, wk, inp, slot, wpc, got, tcopies, secondary>>

\* ----------------------------------------------------------------- Task<R>
NoResult == [st |-> "none", val |-> 0, err |-> "none"]
\* std::future_status::timeout and std::future_status::ready
TimedOut == [st |-> "timeout", val |-> 0, err |-> "none"]
Ready == [st |-> "ready", val |-> 0, err |-> "none"]
\* a Task<R> object: valid() of its shared_future, and what the last get()
\* or wait_for() made through it produced
NewCopy == [valid |-> TRUE, last |-> NoResult]

\* std::packaged_task<R(Args...)>::operator(): the result of func(args...)
\* or the exception it raises is stored and the shared state made ready
RunPackage(in) ==
    LET r == Call(in) IN
    IF r.raised THEN Failed(r.err)
    ELSE IF in.fn = "noop" THEN Resolved(NoValue)
    ELSE Resolved(r.val)

\* Task::Task(func, args...): packaged_task package{func};
\* future = package.get_future().share(); std::thread(move(package)).detach()
\* started = FALSE: the std::thread constructor throws, so does Task's
\* constructor, and no Task object comes to exist
TaskConstruct(t, in, started) ==
    /\ NextHandle(t)
    /\ inp' = [inp EXCEPT ![t] = in]
    /\ IF started
       THEN /\ spc' = [spc EXCEPT ![t] = "task"]
            /\ wk' = [wk EXCEPT ![t] = "package"]
            /\ slot' = [slot EXCEPT ![t] = Pending]
            /\ tcopies' = [tcopies EXCEPT ![t] = <<NewCopy>>]
       ELSE /\ spc' = [spc EXCEPT ![t] = "ctor_raised"]
            /\ slot' = [slot EXCEPT ![t] = AbandonPromise(Pending)]
            /\ UNCHANGED <<wk, tcopies>>
    /\ UNCHANGED <<task_count, mutex, wpc, fvalid, got, secondary>>

\* the detached thread runs the packaged_task
TaskThread(t) ==
    /\ wk[t] = "package"
    /\ slot' = [slot EXCEPT ![t] = RunPackage(inp[t])]
    /\ wk' = [wk EXCEPT ![t] = "done"]
    /\ UNCHANGED <<task_count, mutex, spc, inp, wpc, fvalid, got, tcopies, secondary>>

\* copy construction of a Task: the shared_future member is copied and
\* refers to the same shared state
CopyFuture(c) == [NewCopy EXCEPT !.valid = c.valid]

TaskCopy(t, c) ==
    /\ c \in DOMAIN tcopies[t]
    /\ Len(tcopies[t]) < MaxCopies
    /\ tcopies' = [tcopies EXCEPT ![t] = Append(@, CopyFuture(tcopies[t][c]))]
    /\ UNCHANGED <<task_count, mutex, spc, wk, inp, slot, wpc, fvalid, got, secondary>>

\* (variant: get() moves the result out, as std::future::get does)
SharedGetMoves(c, s) ==
    [c EXCEPT !.last = IF c.last.st \in {"Resolved", "Failed"}
                       THEN Failed("no_state") ELSE s]

\* std::shared_future::get: blocks until ready, then returns a reference to
\* the stored value or rethrows the stored exception; the state is kept
SharedGet(c, s) == [c EXCEPT !.last = s]

\* Task::get
TaskGet(t, c) ==
    /\ c \in DOMAIN tcopies[t]
    /\ tcopies[t][c].valid
    /\ Terminal(slot[t])
    /\ tcopies' = [tcopies EXCEPT ![t][c] = SharedGet(@, slot[t])]
    /\ UNCHANGED <<task_count, mutex, spc, wk, inp, slot, wpc, fvalid, got, secondary>>

\* (variant: the wait reports ready without looking at the shared state)
WaitStatusEager(s) == Ready

\* std::shared_future::wait_for: ready when the shared state is ready by the
\* time the duration has elapsed, timeout otherwise
WaitStatus(s) == IF Terminal(s) THEN Ready ELSE TimedOut

\* Task::wait_for
TaskWaitFor(t, c) ==
    /\ c \in DOMAIN tcopies[t]
    /\ tcopies[t][c].valid
    /\ tcopies' = [tcopies EXCEPT ![t][c].last = WaitStatus(slot[t])]
    /\ UNCHANGED <<task_count, mutex, spc, wk, inp, slot, wpc, fvalid, got, secondary>>

\* What a call of Task::wait_until comes to: its body hands the time_point
\* it was given to std::shared_future::wait_for, which is declared for a
\* std::chrono::duration only. No overload is viable, so the member does not
\* instantiate: a program that makes the call is rejected by the compiler
\* and the call yields neither ready nor timeout.
IllFormed == [st |-> "ill_formed", val |-> 0, err |-> "none"]
WaitUntilStatus(s) == IllFormed

\* Task::wait_until
TaskWaitUntil(t, c) ==
    /\ c \in DOMAIN tcopies[t]
    /\ tcopies[t][c].valid
    /\ tcopies' = [tcopies EXCEPT ![t][c].last = WaitUntilStatus(slot[t])]
    /\ UNCHANGED <<task_count, mutex, spc, wk, inp, slot, wpc, fvalid, got, secondary>>

\* a Task object is destroyed: its shared_future member (from
\* packaged_task::get_future) gives up its reference to the shared state
TaskRelease(t, c) ==
    /\ c \in DOMAIN tcopies[t]
    /\ tcopies[t][c].valid
    /\ tcopies' = [tcopies EXCEPT ![t][c].valid = FALSE]
    /\ UNCHANGED <<task_count, mutex, spc, wk, inp, slot, wpc, fvalid, got, secondary>>

\* ------------------------------------------------------- specifications
\* The drain protocol: spawn, the workers and the callers of wait_all.
Next ==
    \/ \E t \in Tasks, in \in DrainInputs : SpawnIncrement(t, in)
    \/ \E t \in Tasks : SpawnLaunch(t)
    \/ \E t \in Tasks : SpawnLaunchFail(t)
    \/ \E t \in Tasks : SpawnReturn(t)
    \/ \E t \in Tasks, v \in DrainValues : SpawnWithResult(t, v)
    \/ \E t \in Tasks, stored \in BOOLEAN : WorkerRun(t, stored)
    \/ \E t \in Tasks : WorkerLock(t)
    \/ \E t \in Tasks : WorkerSignal(t)
    \/ \E t \in Tasks : WorkerExit(t)
    \/ \E w \in Waiters : WaitAllCall(w)
    \/ \E w \in Waiters : WaitAllLock(w)
    \/ \E w \in Waiters : WaitAllBlock(w)
    \/ \E w \in Waiters : SpuriousWake(w)
    \/ \E w \in Waiters : WaitAllReturn(w)

Spec == Init /\ [][Next]_vars

\* The handles: every way of making one, the threads behind them, and the
\* reads made through them.
HandleNext ==
    \/ \E t \in Handles, in \in Inputs : SpawnIncrement(t, in)
    \/ \E t \in Handles : SpawnLaunch(t)
    \/ \E t \in Handles : SpawnLaunchFail(t)
    \/ \E t \in Handles : SpawnReturn(t)
    \/ \E t \in Handles, v \in Values : SpawnWithResult(t, v)
    \/ \E t \in Handles, stored \in BOOLEAN : WorkerRun(t, stored)
    \/ \E t \in Handles : WorkerLock(t)
    \/ \E t \in Handles : WorkerSignal(t)
    \/ \E t \in Handles : WorkerExit(t)
    \/ \E t \in Handles : FutureGet(t)
    \/ \E t \in Handles, in \in Inputs, started \in BOOLEAN : TaskConstruct(t, in, started)
    \/ \E t \in Handles : TaskThread(t)
    \/ \E t \in Handles, c \in 1..MaxCopies : TaskCopy(t, c)
    \/ \E t \in Handles, c \in 1..MaxCopies : TaskGet(t, c)
    \/ \E t \in Handles, c \in 1..MaxCopies : TaskWaitFor(t, c)

HandleSpec == Init /\ [][HandleNext]_vars

\* Fair scheduling: every thread that can take a step eventually takes it.
\* A thread contending for the mutex gets it if it is free again and again
\* (strong fairness); spurious wake-ups and new calls are never forced.
Fairness ==
    /\ \A t \in Tasks : WF_vars(SpawnLaunch(t) \/ SpawnLaunchFail(t))
    /\ \A t \in Tasks : WF_vars(SpawnReturn(t))
    /\ \A t \in Tasks : WF_vars(\E stored \in BOOLEAN : WorkerRun(t, stored))
    /\ \A t \in Tasks : SF_vars(WorkerLock(t))
    /\ \A t \in Tasks : WF_vars(WorkerSignal(t))
    /\ \A t \in Tasks : WF_vars(WorkerExit(t))
    /\ \A w \in Waiters : SF_vars(WaitAllLock(w))
    /\ \A w \in Waiters : WF_vars(WaitAllBlock(w))
    /\ \A w \in Waiters : WF_vars(WaitAllReturn(w))

\* The drain protocol again, for the runs checked under fairness.
LiveNext ==
    \/ \E t \in Drained, in \in DrainInputs : SpawnIncrement(t, in)
    \/ \E t \in Drained : SpawnLaunch(t)
    \/ \E t \in Drained : SpawnLaunchFail(t)
    \/ \E t \in Drained : SpawnReturn(t)
    \/ \E t \in Drained, stored \in BOOLEAN : WorkerRun(t, stored)
    \/ \E t \in Drained : WorkerLock(t)
    \/ \E t \in Drained : WorkerSignal(t)
    \/ \E t \in Drained : WorkerExit(t)
    \/ \E w \in Waiters : WaitAllCall(w)
    \/ \E w \in Waiters : WaitAllLock(w)
    \/ \E w \in Waiters : WaitAllBlock(w)
    \/ \E w \in Waiters : SpuriousWake(w)
    \/ \E w \in Waiters : WaitAllReturn(w)

LiveSpec == Init /\ [][LiveNext]_vars /\ Fairness

\* The value-backed handles next to spawned tasks at every stage of their
\* run, and the get() calls made on both.
ValueNext ==
    \/ \E t \in Tasks, in \in DrainInputs : SpawnIncrement(t, in)
    \/ \E t \in Tasks : SpawnLaunch(t)
    \/ \E t \in Tasks : SpawnLaunchFail(t)
    \/ \E t \in Tasks : SpawnReturn(t)
    \/ \E t \in Tasks, v \in Values : SpawnWithResult(t, v)
    \/ \E t \in Tasks, stored \in BOOLEAN : WorkerRun(t, stored)
    \/ \E t \in Tasks : WorkerLock(t)
    \/ \E t \in Tasks : WorkerSignal(t)
    \/ \E t \in Tasks : WorkerExit(t)
    \/ \E t \in Tasks : FutureGet(t)

ValueSpec == Init /\ [][ValueNext]_vars

\* Handles that are destroyed at any moment, next to the tasks behind them
\* and a caller of wait_all, under fair scheduling.
ReleaseNext ==
    \/ \E t \in Drained, in \in DrainInputs : SpawnIncrement(t, in)
    \/ \E t \in Drained : SpawnLaunch(t)
    \/ \E t \in Drained : SpawnLaunchFail(t)
    \/ \E t \in Drained : SpawnReturn(t)
    \/ \E t \in Drained, stored \in BOOLEAN : WorkerRun(t, stored)
    \/ \E t \in Drained : WorkerLock(t)
    \/ \E t \in Drained : WorkerSignal(t)
    \/ \E t \in Drained : WorkerExit(t)
    \/ \E t \in Drained : FutureRelease(t)
    \/ \E t \in Drained, in \in DrainInputs, started \in BOOLEAN : TaskConstruct(t, in, started)
    \/ \E t \in Drained : TaskThread(t)
    \/ \E t \in Drained, c \in 1..MaxCopies : TaskRelease(t, c)
    \/ \E w \in Waiters : WaitAllCall(w)
    \/ \E w \in Waiters : WaitAllLock(w)
    \/ \E w \in Waiters : WaitAllBlock(w)
    \/ \E w \in Waiters : SpuriousWake(w)
    \/ \E w \in Waiters : WaitAllReturn(w)

\* the detached thread of a Task is scheduled like any other
ReleaseFairness == Fairness /\ \A t \in Tasks : WF_vars(TaskThread(t))

ReleaseSpec == Init /\ [][ReleaseNext]_vars /\ ReleaseFairness

\* Several threads inside wait_all at once: the state after construction
\* with Drainers as the calling threads, and the drain protocol under fair
\* scheduling.
ConcurrentInit ==
    /\ task_count = 0
    /\ mutex = Free
    /\ spc = [t \in Tasks |-> "idle"]
    /\ wk = [t \in Tasks |-> "none"]
    /\ inp = [t \in Tasks |-> NoInput]
    /\ slot = [t \in Tasks |-> Pending]
    /\ wpc = [w \in Drainers |-> "idle"]
    /\ fvalid = [t \in Tasks |-> FALSE]
    /\ got = [t \in Tasks |-> <<>>]
    /\ tcopies = [t \in Tasks |-> <<>>]
    /\ secondary = {}

ConcurrentNext ==
    \/ \E t \in Drained, in \in DrainInputs : SpawnIncrement(t, in)
    \/ \E t \in Drained : SpawnLaunch(t)
    \/ \E t \in Drained : SpawnLaunchFail(t)
    \/ \E t \in Drained : SpawnReturn(t)
    \/ \E t \in Drained, stored \in BOOLEAN : WorkerRun(t, stored)
    \/ \E t \in Drained : WorkerLock(t)
    \/ \E t \in Drained : WorkerSignal(t)
    \/ \E t \in Drained : WorkerExit(t)
    \/ \E w \in Drainers : WaitAllCall(w)
    \/ \E w \in Drainers : WaitAllLock(w)
    \/ \E w \in Drainers : WaitAllBlock(w)
    \/ \E w \in Drainers : SpuriousWake(w)
    \/ \E w \in Drainers : WaitAllReturn(w)

ConcurrentFairness ==
    /\ \A t \in Drained : WF_vars(SpawnLaunch(t) \/ SpawnLaunchFail(t))
    /\ \A t \in Drained : WF_vars(SpawnReturn(t))
    /\ \A t \in Drained : WF_vars(\E stored \in BOOLEAN : WorkerRun(t, stored))
    /\ \A t \in Drained : SF_vars(WorkerLock(t))
    /\ \A t \in Drained : WF_vars(WorkerSignal(t))
    /\ \A t \in Drained : WF_vars(WorkerExit(t))
    /\ \A w \in Drainers : SF_vars(WaitAllLock(w))
    /\ \A w \in Drainers : WF_vars(WaitAllBlock(w))
    /\ \A w \in Drainers : WF_vars(WaitAllReturn(w))

ConcurrentSpec == ConcurrentInit /\ [][ConcurrentNext]_vars /\ ConcurrentFairness

\* Teardown: one thread destroys the manager. No spawn call is in progress
\* when the destructor is entered and none begins afterwards.
Destroyer == CHOOSE w \in Waiters : \A u \in Waiters : w <= u
Destroying == wpc[Destroyer] # "idle"
SpawnInProgress == \E t \in Tasks : spc[t] \in {"counted", "launched"}

TeardownNext ==
    \/ \E t \in Tasks, in \in DrainInputs : ~Destroying /\ SpawnIncrement(t, in)
    \/ \E t \in Tasks : SpawnLaunch(t)
    \/ \E t \in Tasks : SpawnLaunchFail(t)
    \/ \E t \in Tasks : SpawnReturn(t)
    \/ \E t \in Tasks, stored \in BOOLEAN : WorkerRun(t, stored)
    \/ \E t \in Tasks : WorkerLock(t)
    \/ \E t \in Tasks : WorkerSignal(t)
    \/ \E t \in Tasks : WorkerExit(t)
    \/ ~SpawnInProgress /\ Destructor(Destroyer)
    \/ WaitAllLock(Destroyer)
    \/ WaitAllBlock(Destroyer)
    \/ SpuriousWake(Destroyer)
    \/ WaitAllReturn(Destroyer)

TeardownSpec == Init /\ [][TeardownNext]_vars

\* The waits of Task: every read that can be made through a Task and its
\* copies, wait_until included.
WaitNext ==
    \/ \E t \in Handles, in \in Inputs, started \in BOOLEAN : TaskConstruct(t, in, started)
    \/ \E t \in Handles : TaskThread(t)
    \/ \E t \in Handles, c \in 1..MaxCopies : TaskCopy(t, c)
    \/ \E t \in Handles, c \in 1..MaxCopies : TaskGet(t, c)
    \/ \E t \in Handles, c \in 1..MaxCopies : TaskWaitFor(t, c)
    \/ \E t \in Handles, c \in 1..MaxCopies : TaskWaitUntil(t, c)

WaitSpec == Init /\ [][WaitNext]_vars

\* ------------------------------------------------------------- vocabulary
\* the spawn call of t has executed task_count++
Registered(t) == spc[t] \in {"counted", "launched", "returned", "raised"}
\* the worker of t has executed task_count--
Decremented(t) == Registered(t) /\ wk[t] \in {"exit", "done"}
\* the std::thread constructor threw in some spawn call
LaunchFailed == \E t \in Tasks : spc[t] = "raised"
InWaitAll(w) == wpc[w] \in {"lock", "wait", "blocked", "unlock"}

\* ---------------------------------------------------------------- claims
\* C1 (drain safety): wait_all leaves its wait loop only by a step that
\* holds the mutex and reads task_count = 0, and at that step every task
\* whose spawn has returned so far (hence every task whose spawn returned
\* before the call began) has executed its decrement; wait_all returns only
\* from there.
DrainSafety ==
    [][\A w \in Waiters :
         /\ (wpc[w] # "unlock" /\ wpc'[w] = "unlock") =>
               /\ wpc[w] = "lock"
               /\ mutex' = WaiterId(w)
               /\ task_count = 0
               /\ \A t \in Tasks : spc[t] = "returned" => Decremented(t)
         /\ (wpc[w] # "returned" /\ wpc'[w] = "returned") => wpc[w] = "unlock"]_vars

DrainSafetyWitness ==
    \E w \in Waiters, t \in Tasks :
        wpc[w] = "returned" /\ spc[t] = "returned" /\ Decremented(t)

\* C2 (drain liveness): under fair scheduling, when every spawn call
\* launched its task, every wait_all call eventually returns, and
\* task_count settles at exactly 0.
DrainLiveness ==
    /\ \A w \in Waiters :
          (InWaitAll(w) /\ ~LaunchFailed) ~> (wpc[w] = "returned" \/ LaunchFailed)
    /\ <>[](task_count = 0 \/ LaunchFailed)

DrainLivenessWitness ==
    /\ \A w \in Waiters : wpc[w] = "returned"
    /\ \A t \in Drained : spc[t] = "returned" /\ wk[t] = "done"
    /\ task_count = 0

OutcomeBeforeDecrement ==
    \A t \in Tasks : Decremented(t) => Terminal(slot[t])

\* C5 (launch failure leaves no registration): when no task is outstanding
\* (every spawn call either raised or had its worker decrement), task_count
\* is 0, so wait_all does not block.
LaunchFailureUnregisters ==
    (\A t \in Tasks : spc[t] \in {"counted", "launched", "returned"} => Decremented(t))
        => task_count = 0

\* C6 (failure does not cross into the drain protocol): every worker,
\* whether its callable returned or raised, finishes only through the step
\* that holds the mutex, decrements task_count by exactly one and wakes
\* every blocked waiter.
FailureStillDrains ==
    [][\A t \in Tasks :
         /\ (wk[t] # "exit" /\ wk'[t] = "exit") =>
               /\ wk[t] = "locked"
               /\ mutex = WorkerId(t)
               /\ task_count' = task_count - 1
               /\ \A w \in Waiters : wpc'[w] # "blocked"
         /\ (wk[t] # "done" /\ wk'[t] = "done") => wk[t] = "exit"
         /\ (wk[t] = "run" /\ wk'[t] # "run") => wk'[t] = "lock"]_vars

FailureStillDrainsWitness ==
    \E t \in Tasks, w \in Waiters :
        /\ Call(inp[t]).raised
        /\ wk[t] = "done"
        /\ wpc[w] = "returned"
        /\ task_count = 0

\* the handle was made by TaskManager::spawn / by Task's constructor
Spawned(t) == spc[t] \in {"launched", "returned"}
IsTask(t) == spc[t] = "task"
\* the callable of t has been invoked and has finished
Ran(t) == wk[t] \in {"lock", "locked", "exit", "done"}
IsOutcome(r) == r.st \in {"Resolved", "Failed", "Crash"}

\* C7 (task failure capture): when the callable raises e and recording e
\* does not itself raise, the spawn call has not raised, the result slot,
\* Pending until then, is Failed(e), and the first get() on the handle (any
\* get() on a Task) surfaces e: no other error and no value.
TaskFailureCapture ==
    \A t \in Tasks :
        /\ (Registered(t) /\ Call(inp[t]).raised /\ Ran(t) /\ t \notin secondary) =>
              /\ Spawned(t)
              /\ slot[t] = Failed(inp[t].err)
              /\ Len(got[t]) >= 1 => got[t][1] = Failed(inp[t].err)
        /\ (Registered(t) /\ Call(inp[t]).raised /\ ~Ran(t)) => slot[t].st # "Failed" \/ spc[t] = "raised"
        /\ (IsTask(t) /\ Call(inp[t]).raised) =>
              /\ slot[t] = IF wk[t] = "done" THEN Failed(inp[t].err) ELSE Pending
              /\ \A c \in DOMAIN tcopies[t] :
                    IsOutcome(tcopies[t][c].last) => tcopies[t][c].last = Failed(inp[t].err)

TaskFailureCaptureWitness ==
    \E t \in Tasks :
        /\ spc[t] = "returned"
        /\ inp[t] = [fn |-> "throw", a |-> 0, b |-> 0, err |-> "boom"]
        /\ got[t] = <<Failed("boom")>>

\* C8 (result delivery): a get() that returns does so only once the slot
\* has left Pending, and for a callable that returns v = a + b the first
\* get() on the future from spawn, and every get() on a Task, yields
\* exactly v.
ResultDelivery ==
    [][\A t \in Tasks :
         /\ (Len(got[t]) = 0 /\ Len(got'[t]) = 1) =>
               /\ Terminal(slot[t])
               /\ (Spawned(t) /\ inp[t].fn = "add") =>
                     got'[t][1] = Resolved(inp[t].a + inp[t].b)
         /\ \A c \in DOMAIN tcopies[t] :
               (IsOutcome(tcopies'[t][c].last) /\ tcopies'[t][c] # tcopies[t][c]) =>
                   /\ Terminal(slot[t])
                   /\ inp[t].fn = "add" =>
                         tcopies'[t][c].last = Resolved(inp[t].a + inp[t].b)]_vars

ResultDeliveryWitness ==
    \E t \in Tasks :
        /\ spc[t] = "returned"
        /\ inp[t] = [fn |-> "add", a |-> 2, b |-> 2, err |-> "none"]
        /\ got[t] = <<Resolved(4)>>

\* C9 (get is idempotent on the future from spawn / spawn_with_result): a
\* second get() on the same handle produces what the first one produced.
GetIdempotent ==
    \A t \in Tasks :
        (spc[t] \in {"returned", "value"} /\ Len(got[t]) >= 2) => got[t][2] = got[t][1]

\* C10 (shared-handle agreement): the slot of a Task is written once; every
\* get() through every copy yields that one outcome; and no copy's wait
\* times out on a Pending slot once some copy has seen the slot ready.
SharedHandleAgreement ==
    /\ [](\A t \in Tasks : IsTask(t) =>
            \A c \in DOMAIN tcopies[t] :
                IsOutcome(tcopies[t][c].last) =>
                    /\ Terminal(slot[t])
                    /\ tcopies[t][c].last = slot[t])
    /\ [][\A t \in Tasks : IsTask(t) =>
            /\ Terminal(slot[t]) => slot'[t] = slot[t]
            /\ \A c \in DOMAIN tcopies[t] :
                  (tcopies'[t][c].last = TimedOut /\ tcopies[t][c].last # TimedOut) =>
                      \A d \in DOMAIN tcopies[t] :
                          ~IsOutcome(tcopies[t][d].last) /\ tcopies[t][d].last # Ready]_vars

SharedHandleAgreementWitness ==
    \E t \in Tasks :
        /\ IsTask(t)
        /\ Len(tcopies[t]) >= 2
        /\ IsOutcome(tcopies[t][1].last)
        /\ tcopies[t][2].last = tcopies[t][1].last

\* C11 (valueless task outcome): when a callable that returns nothing is
\* spawned through TaskManager::spawn and returns normally, the result slot
\* ends Resolved, and the first get() on the handle returns normally.
ValuelessOutcome ==
    \A t \in Tasks :
        (Spawned(t) /\ inp[t].fn = "noop") =>
            /\ wk[t] = "done" => slot[t].st = "Resolved"
            /\ Len(got[t]) >= 1 => got[t][1].st = "Resolved"

\* the handle was made by spawn_with_result
ValueBacked(t) == spc[t] = "value"

\* C12 (a value-backed handle is born resolved): whatever the other tasks
\* are doing, a handle made by spawn_with_result(v) holds Resolved(v) from
\* the moment it is returned and is valid until read; get() on it is
\* enabled at once (it finds the state ready and does not block), and the
\* first get() returns v.
BornResolved ==
    \A t \in Tasks :
        ValueBacked(t) =>
            /\ slot[t] = Resolved(inp[t].a)
            /\ got[t] = <<>> => (fvalid[t] /\ ENABLED FutureGet(t))
            /\ Len(got[t]) >= 1 => got[t][1] = Resolved(inp[t].a)

BornResolvedWitness ==
    \E t, u \in Tasks :
        /\ ValueBacked(t)
        /\ inp[t] = ValueInput(3)
        /\ got[t] = <<Resolved(3)>>
        /\ spc[u] = "returned" /\ wk[u] = "run" /\ slot[u] = Pending

\* C13 (spawn_with_result frame): a spawn_with_result call changes neither
\* task_count, nor the owner of the mutex, nor the position of any worker,
\* nor the position of any thread inside wait_all (none is blocked or woken
\* by it); and a value-backed handle never has an execution unit.
SpawnWithResultFrame ==
    /\ [](\A t \in Tasks : ValueBacked(t) => wk[t] = "none")
    /\ [][\A t \in Tasks :
            (~ValueBacked(t) /\ ValueBacked(t)') =>
                /\ task_count' = task_count
                /\ mutex' = mutex
                /\ wk' = wk
                /\ wpc' = wpc]_vars

SpawnWithResultFrameWitness ==
    \E t, u \in Tasks, w \in Waiters :
        /\ ValueBacked(t)
        /\ u < t /\ Registered(u) /\ wk[u] = "run"
        /\ wpc[w] = "blocked"
        /\ task_count = 1

\* the handle of t (the future from spawn, or a Task object) was destroyed
Released(t) ==
    \/ spc[t] = "returned" /\ ~fvalid[t] /\ got[t] = <<>>
    \/ IsTask(t) /\ \E c \in DOMAIN tcopies[t] : ~tcopies[t][c].valid

\* C14 (handle release is non-blocking and non-cancelling): the future
\* returned by spawn, and a Task, can be destroyed in whatever state the
\* slot is in, Pending included; destroying one leaves task_count, every
\* worker, every slot, the mutex and the waiters as they were; and the task
\* behind a destroyed handle still runs to its end, with, for a spawned
\* task, its decrement made.
HandleRelease ==
    /\ [](\A t \in Tasks :
            /\ (spc[t] = "returned" /\ fvalid[t]) => ENABLED FutureRelease(t)
            /\ IsTask(t) => \A c \in DOMAIN tcopies[t] :
                  tcopies[t][c].valid => ENABLED TaskRelease(t, c))
    /\ [][\A t \in Tasks :
            (~Released(t) /\ Released(t)') =>
                /\ task_count' = task_count
                /\ wk' = wk
                /\ slot' = slot
                /\ mutex' = mutex
                /\ wpc' = wpc]_vars
    /\ \A t \in Drained :
          Released(t) ~> (wk[t] = "done" /\ Terminal(slot[t]) /\ (Spawned(t) => Decremented(t)))

HandleReleaseWitness ==
    \E t \in Tasks :
        /\ Released(t)
        /\ Spawned(t)
        /\ wk[t] = "run"
        /\ slot[t] = Pending
        /\ task_count = 1

\* C15 (a timeout bounds only the waiting): wait_for on a Task returns
\* timeout exactly when the slot is still Pending as the wait ends and ready
\* exactly when it is terminal, never anything else; the call changes
\* neither the slot nor the task's thread; after a timeout the handle is
\* still valid, the task can still run, a later get() through the same
\* handle can return only once the slot is terminal, and it then yields the
\* outcome of the callable.
TimeoutBoundsWaiting ==
    /\ [](\A t \in Tasks : IsTask(t) => \A c \in DOMAIN tcopies[t] :
            tcopies[t][c].last = TimedOut =>
                /\ tcopies[t][c].valid
                /\ wk[t] = "package" => (slot[t] = Pending /\ ENABLED TaskThread(t))
                /\ (ENABLED TaskGet(t, c)) <=> Terminal(slot[t]))
    /\ [][\A t \in Tasks : IsTask(t) => \A c \in DOMAIN tcopies[t] :
            /\ TaskWaitFor(t, c) =>
                  /\ tcopies'[t][c].last \in {TimedOut, Ready}
                  /\ tcopies'[t][c].last = Ready <=> Terminal(slot[t])
                  /\ tcopies'[t][c].valid
                  /\ slot' = slot /\ wk' = wk
            /\ (tcopies[t][c].last = TimedOut /\ IsOutcome(tcopies'[t][c].last)) =>
                  /\ Terminal(slot[t])
                  /\ tcopies'[t][c].last = RunPackage(inp[t])]_vars

TimeoutBoundsWaitingWitness ==
    \E t \in Tasks :
        /\ IsTask(t)
        /\ inp[t] = [fn |-> "add", a |-> 2, b |-> 2, err |-> "none"]
        /\ tcopies[t][1].last = TimedOut
        /\ tcopies[t][1].valid
        /\ wk[t] = "done"
        /\ slot[t] = Resolved(4)

\* C16 (concurrent drains): the decrement that brings task_count to 0 wakes
\* every thread blocked in wait_all at that moment, and under fair
\* scheduling no thread stays inside wait_all while task_count stays 0:
\* again and again, either task_count is not 0 or every caller is out.
ConcurrentDrains ==
    /\ [][\A t \in Tasks :
            (wk[t] = "locked" /\ wk'[t] = "exit" /\ task_count' = 0) =>
                \A w \in Drainers : wpc[w] = "blocked" => wpc'[w] = "lock"]_vars
    /\ []<>(task_count # 0 \/ \A w \in Drainers : ~InWaitAll(w))

ConcurrentDrainsWitness ==
    /\ \A w \in Drainers : wpc[w] = "lock"
    /\ \E t \in Tasks : wk[t] = "exit"
    /\ \A t \in Tasks : wk[t] \in {"none", "exit", "done"}
    /\ task_count = 0

\* the destructor's wait_all has returned: the members are being destroyed
Destroyed == wpc[Destroyer] = "returned"
\* the worker of t reads or writes mut, cond or task_count now or later
UsesManager(t) == wk[t] \in {"run", "lock", "locked"}

\* C17 (teardown drains): when no spawn call overlaps or follows the
\* destruction, the destructor leaves its wait_all only with task_count = 0,
\* and from then on no worker touches the mutex, the condition variable or
\* the counter: every launched worker has made its decrement and released
\* the mutex. While a task has not finished, the destructor has not returned.
TeardownDrains ==
    /\ [](Destroyed =>
            /\ task_count = 0
            /\ \A t \in Tasks : ~UsesManager(t)
            /\ \A t \in Tasks : Spawned(t) => Decremented(t)
            /\ \A w \in Waiters : mutex # WaiterId(w))
    /\ [][Destroyed' => (Destroyed \/ (wpc[Destroyer] = "unlock" /\ task_count = 0))]_vars

TeardownDrainsWitness ==
    /\ Destroyed
    /\ \A t \in Tasks : Spawned(t) /\ wk[t] \in {"exit", "done"}
    /\ \E t \in Tasks : wk[t] = "exit"

\* C18 (single terminal transition): a slot that is terminal never changes
\* again, state or payload; the slot of a handle (a future returned by
\* spawn, or a Task) leaves Pending only in a step of that task's own
\* thread, and lands in Resolved or Failed.
SingleTerminalTransition ==
    [][\A t \in Tasks :
         /\ Terminal(slot[t]) => slot'[t] = slot[t]
         /\ ((Spawned(t) \/ IsTask(t)) /\ slot'[t] # slot[t]) =>
               /\ slot[t] = Pending
               /\ slot'[t].st \in {"Resolved", "Failed"}
               /\ wk[t] \in {"run", "exit", "package"}
               /\ wk'[t] # wk[t]
               /\ \A u \in Tasks : u # t => wk'[u] = wk[u]]_vars

SingleTerminalTransitionWitness ==
    \E t \in Tasks :
        /\ Spawned(t)
        /\ wk[t] = "done"
        /\ slot[t] = Resolved(4)
        /\ got[t] = <<Resolved(4)>>

\* C19, as stated (secondary capture failure): when recording the task's
\* failure itself raised, the slot stays Pending for good and no get() on
\* the handle returns.
SecondaryLeavesPending ==
    \A t \in Tasks :
        t \in secondary => (slot[t] = Pending /\ got[t] = <<>>)

\* C19, amended: when recording the task's failure itself raised, the
\* secondary failure is dropped and the slot stays Pending only until the
\* worker returns; the destruction of the worker's promise then makes it
\* Failed(broken_promise), which is what the first get() surfaces, in place
\* of the task's own error. The worker makes its decrement all the same.
SecondaryEndsBroken ==
    \A t \in Tasks :
        t \in secondary =>
            /\ Call(inp[t]).raised
            /\ Ran(t)
            /\ slot[t] = IF wk[t] = "done" THEN Failed("broken_promise") ELSE Pending
            /\ slot[t] # Failed(inp[t].err)
            /\ Len(got[t]) >= 1 => got[t][1] = Failed("broken_promise")

SecondaryEndsBrokenWitness ==
    \E t \in Tasks :
        /\ t \in secondary
        /\ Decremented(t)
        /\ got[t] = <<Failed("broken_promise")>>

\* C20 (absolute-deadline wait): a call of Task::wait_until returns ready
\* when the slot is terminal by the deadline and timeout otherwise, which is
\* what wait_for returns for the time left until that deadline.
AbsoluteDeadlineWait ==
    [][\A t \in Tasks : IsTask(t) => \A c \in DOMAIN tcopies[t] :
         TaskWaitUntil(t, c) =>
             /\ tcopies'[t][c].last \in {Ready, TimedOut}
             /\ tcopies'[t][c].last = WaitStatus(slot[t])]_vars

====
